---- MODULE Spec2Model ----
(***************************************************************************)
(* A model of commando.py: the decorators that tag methods (command,      *)
(* subcommand, param), the metaclass Commando that groups the tagged      *)
(* methods by parent, validates the root, resolves the '__main__' bucket  *)
(* and materialises the argparse parsers (build_commands), and            *)
(* Application.parse / Application.run.                                   *)
(*                                                                         *)
(* Methods are 1..NumFuncs.  A command is named after its method, so the  *)
(* token that selects a sub-parser is the method's number.  A param is    *)
(* identified by the ordinal of its application, so application order is  *)
(* observable.  argparse is modelled by what commando.py uses of it under *)
(* Python 2 (the only interpreter the module runs on): parsers with their *)
(* arguments, one optional sub-parser group, the defaults set with        *)
(* set_defaults, and parse_args walking the sub-command tokens.           *)
(***************************************************************************)
EXTENDS Integers, Sequences, FiniteSets, TLC

NumFuncs == 3
MaxParams == 2
MaxArgv == 2

Funcs == 1..NumFuncs

VARIABLES fn, nparams, phase, commands, stack, parsers, cls_parser, cls_main,
          error, last

vars == <<fn, nparams, phase, commands, stack, parsers, cls_parser, cls_main,
          error, last>>

(* ---- values a method's `parent' attribute and a key of `commands' take ---- *)
NoneKey == [tag |-> "None", f |-> 0]
MainKey == [tag |-> "__main__", f |-> 0]
ExtKey == [tag |-> "external", f |-> 0]
FuncKey(f) == [tag |-> "func", f |-> f]

(* the `parent' keyword a decorator is constructed with: absent, or explicit *)
Absent == [tag |-> "absent", f |-> 0]
ParentArgs == {Absent, NoneKey, ExtKey} \cup {FuncKey(f) : f \in Funcs}

(* command.__init__: self.parent = kwargs.get("parent") *)
command_init(kw) == IF kw = Absent THEN NoneKey ELSE kw

(* subcommand.__init__: kwargs['parent'] = kwargs.get("parent", '__main__') *)
subcommand_init(kw) == command_init(IF kw = Absent THEN MainKey ELSE kw)

(* an element of a list in `commands': a method, or (line 85) a nested list *)
FuncEntry(f) == [list |-> FALSE, items |-> <<f>>]
ListEntry(fs) == [list |-> TRUE, items |-> fs]

EmptyCommands == [k \in {} |-> <<>>]

NoCall == [op |-> "none", argv |-> <<>>, ok |-> FALSE, run |-> 0,
           action |-> 0, callargs |-> <<>>, exc |-> ""]

Init ==
    /\ fn = [f \in Funcs |-> [command |-> FALSE, parent |-> NoneKey,
                              hasParams |-> FALSE, params |-> <<>>,
                              parser |-> 0, subparser |-> 0]]
    /\ nparams = 0
    /\ phase = "class_body"
    /\ commands = EmptyCommands
    /\ stack = <<>>
    /\ parsers = <<>>
    /\ cls_parser = 0
    /\ cls_main = 0
    /\ error = [msg |-> "", payload |-> EmptyCommands]
    /\ last = NoCall

(* ---- decorators, applied while the class body executes ---- *)

(* command.__call__: setattr(func, "parent", self.parent); metarate 'command' *)
command_call(f, parent) ==
    [fn EXCEPT ![f].command = TRUE, ![f].parent = parent]

Command(f, kw) ==
    /\ phase = "class_body"
    /\ fn' = command_call(f, command_init(kw))
    /\ UNCHANGED <<nparams, phase, commands, stack, parsers, cls_parser,
                   cls_main, error, last>>

Subcommand(f, kw) ==
    /\ phase = "class_body"
    /\ fn' = command_call(f, subcommand_init(kw))
    /\ UNCHANGED <<nparams, phase, commands, stack, parsers, cls_parser,
                   cls_main, error, last>>

(* param.__call__ with `func.params = [self.values]': the list is replaced *)
param_call_overwrite(f, v) ==
    [fn EXCEPT ![f].hasParams = TRUE, ![f].params = <<v>>]

(* param.__call__ *)
param_call(f, v) ==
    LET old == IF fn[f].hasParams THEN fn[f].params ELSE <<>>
    IN [fn EXCEPT ![f].hasParams = TRUE, ![f].params = Append(old, v)]

Param(f) ==
    /\ phase = "class_body"
    /\ nparams < MaxParams
    /\ nparams' = nparams + 1
    /\ fn' = param_call(f, nparams + 1)
    /\ UNCHANGED <<phase, commands, stack, parsers, cls_parser, cls_main,
                   error, last>>

(* ---- Commando.__new__ ---- *)

(* the orders attrs.itervalues() can enumerate the members in *)
Orders == {s \in [1..NumFuncs -> Funcs] :
              \A i, j \in 1..NumFuncs : i # j => s[i] # s[j]}

(* lines 67-70 *)
add_child(c, key, f) ==
    IF key \in DOMAIN c
    THEN [c EXCEPT ![key] = Append(@, FuncEntry(f))]
    ELSE [k \in DOMAIN c \cup {key} |->
             IF k = key THEN <<FuncEntry(f)>> ELSE c[k]]

(* lines 65-70 *)
RECURSIVE group(_, _, _, _)
group(fns, order, i, c) ==
    IF i > Len(order) THEN c
    ELSE LET f == order[i]
         IN IF fns[f].command
            THEN group(fns, order, i + 1, add_child(c, fns[f].parent, f))
            ELSE group(fns, order, i + 1, c)

(* lines 73-76 with one test for both errors: len(commands.get(None, [])) != 1 *)
validate_merged(c) ==
    IF NoneKey \in DOMAIN c /\ Len(c[NoneKey]) = 1 THEN "ok"
    ELSE "Too much main command found"

(* lines 73-76 with `len(commands[None]) > 2' *)
validate_offbyone(c) ==
    IF NoneKey \notin DOMAIN c THEN "No main command found."
    ELSE IF Len(c[NoneKey]) > 2 THEN "Too much main command found"
    ELSE "ok"

(* lines 73-76 *)
validate(c) ==
    IF NoneKey \notin DOMAIN c THEN "No main command found."
    ELSE IF Len(c[NoneKey]) > 1 THEN "Too much main command found"
    ELSE "ok"

(* lines 82-88 *)
resolve_main(c) ==
    IF MainKey \in DOMAIN c
    THEN LET main_command == FuncKey(c[NoneKey][1].items[1])
             implicit == [i \in 1..Len(c[MainKey]) |-> c[MainKey][i].items[1]]
             merged == IF main_command \in DOMAIN c
                       THEN [c EXCEPT ![main_command] =
                                Append(@, ListEntry(implicit))]
                       ELSE [k \in DOMAIN c \cup {main_command} |->
                                IF k = main_command THEN c[MainKey] ELSE c[k]]
         IN [k \in DOMAIN merged \ {MainKey} |-> merged[k]]
    ELSE c

Frame(parent_func) == [parent_func |-> parent_func, idx |-> 1,
                       pc |-> "for", pidx |-> 1]

(* lines 56-90, up to the call of build_commands *)
New(order) ==
    /\ phase = "class_body"
    /\ LET c == group(fn, order, 1, EmptyCommands)
           v == validate(c)
       IN IF c = EmptyCommands
          THEN /\ phase' = "ready"
               /\ UNCHANGED <<commands, stack, error>>
          ELSE IF v # "ok"
          THEN /\ phase' = "failed"
               /\ error' = [msg |-> v,
                            payload |-> IF v = "Too much main command found"
                                        THEN c ELSE EmptyCommands]
               /\ UNCHANGED <<commands, stack>>
          ELSE /\ phase' = "build"
               /\ commands' = resolve_main(c)
               /\ stack' = <<Frame(NoneKey)>>
               /\ UNCHANGED error
    /\ UNCHANGED <<fn, nparams, parsers, cls_parser, cls_main, last>>

(* ---- Commando.build_commands, one step of the loop at a time ---- *)

top == stack[Len(stack)]

SetTop(fr) == [stack EXCEPT ![Len(stack)] = fr]

(* the element of commands[parent_func] the for loop of line 35 is at *)
cur_entry == commands[top.parent_func][top.idx]

cur_func == cur_entry.items[1]

Raise(msg) ==
    /\ phase' = "failed"
    /\ error' = [msg |-> msg, payload |-> EmptyCommands]

(* ArgumentParser(...) and subparser.add_parser(...): a new parser object *)
new_parser(f, under) ==
    [cmd |-> f, under |-> under, args |-> <<>>, group |-> FALSE,
     choices |-> <<>>, run |-> 0]

(* lines 36-42: the parsers after the parser of func is constructed *)
construct_parser(ps, fns, parent_func, f) ==
    IF parent_func = NoneKey
    THEN Append(ps, new_parser(f, 0))
    ELSE LET g == fns[parent_func.f].subparser
         IN Append([ps EXCEPT ![g].choices = Append(@, Len(ps) + 1)],
                   new_parser(f, g))

(* lines 35-42 *)
BuildParser ==
    /\ phase = "build"
    /\ stack # <<>>
    /\ top.pc = "for"
    /\ top.idx <= Len(commands[top.parent_func])
    /\ IF cur_entry.list
       THEN (* func is a list: func.command raises AttributeError *)
            /\ Raise("AttributeError")
            /\ UNCHANGED <<fn, parsers, stack>>
       ELSE IF top.parent_func # NoneKey /\ fn[top.parent_func.f].subparser = 0
       THEN /\ Raise("AttributeError")
            /\ UNCHANGED <<fn, parsers, stack>>
       ELSE /\ parsers' = construct_parser(parsers, fn, top.parent_func, cur_func)
            /\ fn' = [fn EXCEPT ![cur_func].parser = Len(parsers) + 1]
            /\ stack' = SetTop([top EXCEPT !.pc = "params", !.pidx = 1])
            /\ UNCHANGED <<phase, error>>
    /\ UNCHANGED <<nparams, commands, cls_parser, cls_main, last>>

(* line 44 with `hasattr(func, "param")': the attribute is never found *)
more_params_typo(fns, f, pidx) == FALSE

(* lines 44-46: one add_argument call *)
more_params(fns, f, pidx) == fns[f].hasParams /\ pidx <= Len(fns[f].params)

add_argument(ps, p, v) == [ps EXCEPT ![p].args = Append(@, v)]

BuildParam ==
    /\ phase = "build"
    /\ stack # <<>>
    /\ top.pc = "params"
    /\ more_params(fn, cur_func, top.pidx)
    /\ parsers' = add_argument(parsers, fn[cur_func].parser,
                               fn[cur_func].params[top.pidx])
    /\ stack' = SetTop([top EXCEPT !.pidx = @ + 1])
    /\ UNCHANGED <<fn, nparams, phase, commands, cls_parser, cls_main,
                   error, last>>

(* line 52 with `Commando.build_commands(commands, parent_func)' *)
recurse_parent(parent_func, f) == Frame(parent_func)

(* line 52: Commando.build_commands(commands, func) *)
recurse(parent_func, f) == Frame(FuncKey(f))

(* line 49: func in commands *)
has_children(c, f) == FuncKey(f) \in DOMAIN c

(* lines 48-54 *)
BuildChildren ==
    /\ phase = "build"
    /\ stack # <<>>
    /\ top.pc = "params"
    /\ ~more_params(fn, cur_func, top.pidx)
    /\ LET p == fn[cur_func].parser
       IN IF has_children(commands, cur_func)
          THEN IF parsers[p].group
               THEN (* argparse: cannot have multiple subparser arguments *)
                    /\ Raise("ArgumentError")
                    /\ UNCHANGED <<fn, parsers, stack>>
               ELSE /\ parsers' = [parsers EXCEPT ![p].group = TRUE]
                    /\ fn' = [fn EXCEPT ![cur_func].subparser = p]
                    /\ stack' = Append(SetTop([top EXCEPT !.pc = "recurse"]),
                                       recurse(top.parent_func, cur_func))
                    /\ UNCHANGED <<phase, error>>
          ELSE /\ parsers' = [parsers EXCEPT ![p].run = cur_func]
               /\ stack' = SetTop([top EXCEPT !.pc = "for", !.idx = @ + 1])
               /\ UNCHANGED <<fn, phase, error>>
    /\ UNCHANGED <<nparams, commands, cls_parser, cls_main, last>>

(* the for loop of line 35 is exhausted: build_commands returns *)
BuildReturn ==
    /\ phase = "build"
    /\ stack # <<>>
    /\ top.pc = "for"
    /\ top.idx > Len(commands[top.parent_func])
    /\ LET rest == SubSeq(stack, 1, Len(stack) - 1)
       IN stack' = IF rest = <<>> THEN rest
                   ELSE [rest EXCEPT ![Len(rest)] =
                            [@ EXCEPT !.pc = "for", !.idx = @ + 1]]
    /\ UNCHANGED <<fn, nparams, phase, commands, parsers, cls_parser,
                   cls_main, error, last>>

(* lines 92-95 *)
NewFinish ==
    /\ phase = "build"
    /\ stack = <<>>
    /\ phase' = "ready"
    /\ cls_parser' = fn[commands[NoneKey][1].items[1]].parser
    /\ cls_main' = commands[NoneKey][1].items[1]
    /\ UNCHANGED <<fn, nparams, commands, stack, parsers, error, last>>

(* ---- Application.parse and Application.run ---- *)

(* the command lines tried: up to MaxArgv sub-command tokens, none repeated
   (a command is registered under one parser, so a registered chain repeats
   none) *)
Argvs == {a \in UNION {[1..n -> Funcs] : n \in 0..MaxArgv} :
             \A i, j \in 1..Len(a) : i # j => a[i] # a[j]}

ParseError == [ok |-> FALSE, run |-> 0]

(* the sub-parser registered under name t in the group of parser p (0: none;
   a later registration under the same name replaces an earlier one) *)
choice(ps, p, t) ==
    LET m == {i \in 1..Len(ps[p].choices) : ps[ps[p].choices[i]].cmd = t}
    IN IF m = {} THEN 0
       ELSE ps[p].choices[CHOOSE i \in m : \A j \in m : j <= i]

(* ArgumentParser.parse_args on sub-command tokens: each token selects a
   sub-parser of the current parser's group; a parser with a group requires a
   token; the defaults of the parsers walked end up in the namespace *)
RECURSIVE parse_args(_, _, _, _, _)
parse_args(ps, p, argv, i, run) ==
    IF i > Len(argv)
    THEN IF ps[p].group THEN ParseError ELSE [ok |-> TRUE, run |-> run]
    ELSE IF ~ps[p].group THEN ParseError
    ELSE LET c == choice(ps, p, argv[i])
         IN IF c = 0 THEN ParseError
            ELSE parse_args(ps, c, argv, i + 1,
                            IF ps[c].run # 0 THEN ps[c].run ELSE run)

(* Application.parse: self.__parser__.parse_args(argv) *)
parse(argv) == parse_args(parsers, cls_parser, argv, 1, parsers[cls_parser].run)

Parse(argv) ==
    /\ phase = "ready"
    /\ last' = IF cls_parser = 0
               THEN [NoCall EXCEPT !.op = "parse", !.exc = "AttributeError"]
               ELSE LET ns == parse(argv)
                    IN [NoCall EXCEPT !.op = "parse",
                                      !.ok = ns.ok, !.run = ns.run,
                                      !.exc = IF ns.ok THEN "" ELSE "SystemExit"]
    /\ UNCHANGED <<fn, nparams, phase, commands, stack, parsers, cls_parser,
                   cls_main, error>>

(* lines 236-239 with the test inverted: `if not hasattr(args, 'run')' *)
dispatch_inverted(ns) ==
    IF ns.run = 0
    THEN [action |-> ns.run, callargs |-> <<"self", "args">>]
    ELSE [action |-> cls_main, callargs |-> <<"self", "args">>]

(* lines 236-239: the method called for a parse result, and its arguments *)
dispatch(ns) ==
    IF ns.run # 0
    THEN [action |-> ns.run, callargs |-> <<"self", "args">>]
    ELSE [action |-> cls_main, callargs |-> <<"self", "args">>]

(* run that records the selected command as the type's default command *)
Run_rebinding(argv) ==
    /\ phase = "ready"
    /\ cls_parser # 0
    /\ parse(argv).ok
    /\ last' = [op |-> "run", argv |-> argv, ok |-> TRUE,
                run |-> parse(argv).run, action |-> parse(argv).run,
                callargs |-> <<"self", "args">>, exc |-> ""]
    /\ cls_main' = parse(argv).run
    /\ UNCHANGED <<fn, nparams, phase, commands, stack, parsers, cls_parser,
                   error>>

(* Application.run(): args is None, sys.argv[1:] is parsed *)
Run(argv) ==
    /\ phase = "ready"
    /\ last' = IF cls_parser = 0
               THEN [NoCall EXCEPT !.op = "run", !.argv = argv,
                                   !.exc = "AttributeError"]
               ELSE LET ns == parse(argv)
                    IN IF ~ns.ok
                       THEN [NoCall EXCEPT !.op = "run", !.argv = argv,
                                           !.exc = "SystemExit"]
                       ELSE [op |-> "run", argv |-> argv, ok |-> TRUE,
                             run |-> ns.run, action |-> dispatch(ns).action,
                             callargs |-> dispatch(ns).callargs, exc |-> ""]
    /\ UNCHANGED <<fn, nparams, phase, commands, stack, parsers, cls_parser,
                   cls_main, error>>

(* Application.run(args) with a parse result the caller supplies *)
RunArgs(r) ==
    /\ phase = "ready"
    /\ last' = IF r = 0 /\ cls_main = 0
               THEN [NoCall EXCEPT !.op = "run_args", !.ok = TRUE,
                                   !.exc = "AttributeError"]
               ELSE [op |-> "run_args", argv |-> <<>>, ok |-> TRUE, run |-> r,
                     action |-> dispatch([ok |-> TRUE, run |-> r]).action,
                     callargs |-> dispatch([ok |-> TRUE, run |-> r]).callargs,
                     exc |-> ""]
    /\ UNCHANGED <<fn, nparams, phase, commands, stack, parsers, cls_parser,
                   cls_main, error>>

Next ==
    \/ \E f \in Funcs, kw \in ParentArgs : Command(f, kw)
    \/ \E f \in Funcs, kw \in ParentArgs : Subcommand(f, kw)
    \/ \E f \in Funcs : Param(f)
    \/ \E order \in Orders : New(order)
    \/ BuildParser
    \/ BuildParam
    \/ BuildChildren
    \/ BuildReturn
    \/ NewFinish
    \/ \E argv \in Argvs : Parse(argv)
    \/ \E argv \in Argvs : Run(argv)
    \/ \E r \in 0..NumFuncs : RunArgs(r)

Spec == Init /\ [][Next]_vars

(* __new__ runs synchronously: a build that can take a step takes it *)
BuildStep == BuildParser \/ BuildParam \/ BuildChildren \/ BuildReturn \/ NewFinish

(* The types none of whose methods carries a param: every parent reference
   is possible, cycles and parents outside the type included. *)
TreeNext ==
    \/ \E f \in Funcs, kw \in ParentArgs : Command(f, kw)
    \/ \E f \in Funcs, kw \in ParentArgs : Subcommand(f, kw)
    \/ \E order \in Orders : New(order)
    \/ BuildParser
    \/ BuildChildren
    \/ BuildReturn
    \/ NewFinish
    \/ \E argv \in Argvs : Parse(argv)
    \/ \E argv \in Argvs : Run(argv)
    \/ \E r \in 0..NumFuncs : RunArgs(r)

TreeSpec == Init /\ [][TreeNext]_vars

FairTreeSpec == TreeSpec /\ WF_vars(BuildStep)

(* The types written with the decorator syntax: the methods are defined one
   after another, the decorators of a method are applied when it is defined,
   and an explicit parent is a method defined earlier. *)
InOrder(f) == \A g \in Funcs : g > f => ~fn[g].command /\ ~fn[g].hasParams

Earlier(f) == {Absent, NoneKey} \cup {FuncKey(g) : g \in {h \in Funcs : h < f}}

DefCommand(f, kw) == InOrder(f) /\ Command(f, kw)

DefSubcommand(f, kw) == InOrder(f) /\ Subcommand(f, kw)

DefParam(f) == InOrder(f) /\ Param(f)

ParamNext ==
    \/ \E f \in Funcs : \E kw \in Earlier(f) : DefCommand(f, kw)
    \/ \E f \in Funcs : \E kw \in Earlier(f) : DefSubcommand(f, kw)
    \/ \E f \in Funcs : DefParam(f)
    \/ \E order \in Orders : New(order)
    \/ BuildParser
    \/ BuildParam
    \/ BuildChildren
    \/ BuildReturn
    \/ NewFinish

ParamSpec == Init /\ [][ParamNext]_vars

(* ---- vocabulary of the properties ---- *)

Annotated == {f \in Funcs : fn[f].command}

Roots == {f \in Annotated : fn[f].parent = NoneKey}

Implicit == {f \in Annotated : fn[f].parent = MainKey}

TheRoot == CHOOSE f \in Roots : TRUE

(* the methods that are individual entries of the list commands[k] *)
Kids(c, k) ==
    IF k \in DOMAIN c
    THEN {c[k][i].items[1] : i \in {j \in 1..Len(c[k]) : ~c[k][j].list}}
    ELSE {}

(* the methods reachable from the key None through the mapping *)
RECURSIVE Reach(_, _, _)
Reach(c, S, n) ==
    IF n = 0 THEN S
    ELSE Reach(c, S \cup UNION {Kids(c, FuncKey(f)) : f \in S}, n - 1)

Reachable == Reach(commands, Kids(commands, NoneKey), NumFuncs)

ParsersOf(f) == {p \in 1..Len(parsers) : parsers[p].cmd = f}

ParamsOf(f) == IF fn[f].hasParams THEN fn[f].params ELSE <<>>

IsPrefix(s, t) == Len(s) <= Len(t) /\ \A i \in 1..Len(s) : s[i] = t[i]

(* the parent a method declares: the root for the implicit parent, 0 for
   the root itself, -1 for a parent that is no command of the type *)
DeclaredParent(f) ==
    IF fn[f].parent = NoneKey THEN 0
    ELSE IF fn[f].parent = MainKey THEN TheRoot
    ELSE IF fn[f].parent.tag = "func" /\ fn[f].parent.f \in Annotated
         THEN fn[f].parent.f
    ELSE -1

RECURSIVE UnderRoot(_, _)
UnderRoot(f, n) ==
    IF n = 0 THEN FALSE
    ELSE LET p == DeclaredParent(f)
         IN IF p = 0 THEN TRUE
            ELSE IF p = -1 THEN FALSE
            ELSE UnderRoot(p, n - 1)

(* the declared parents form one tree under the single root *)
IsTree ==
    /\ Cardinality(Roots) = 1
    /\ \A f \in Annotated : UnderRoot(f, NumFuncs + 1)

Built == phase = "ready" /\ cls_parser # 0

(* argv names a chain root -> argv[1] -> ... -> argv[n] of the mapping *)
IsChain(argv) ==
    \A i \in 1..Len(argv) :
        argv[i] \in Kids(commands, FuncKey(IF i = 1 THEN cls_main ELSE argv[i - 1]))

ChainEnd(argv) == IF argv = <<>> THEN cls_main ELSE argv[Len(argv)]

(* ---- C1 ---- *)
(* C1: a type whose annotated methods are exactly one root command and zero
   or more subcommands builds without raising, and after the build every
   annotated method has exactly one parser.  Stated here for the types whose
   declared parents form a tree under the root, the case the claim is
   certainly about. *)
C1_BuildSucceeds ==
    (phase # "class_body" /\ IsTree) =>
        /\ phase # "failed"
        /\ phase = "ready" =>
              \A f \in Annotated :
                  /\ Cardinality(ParsersOf(f)) = 1
                  /\ fn[f].parser \in ParsersOf(f)

(* ---- C2 ---- *)
(* C2: after implicit-parent resolution the root's child list holds every
   implicit subcommand and every child that names the root explicitly as an
   individual entry, and the '__main__' bucket is gone. *)
C2_ImplicitUnderRoot ==
    (commands # EmptyCommands /\ Implicit # {}) =>
        /\ MainKey \notin DOMAIN commands
        /\ \A f \in Annotated :
              (fn[f].parent = MainKey \/ fn[f].parent = FuncKey(TheRoot))
                  => f \in Kids(commands, FuncKey(TheRoot))

(* ---- C3 ---- *)
NoMainFailure ==
    /\ phase = "failed"
    /\ error.msg = "No main command found."
    /\ parsers = <<>>
    /\ \A f \in Funcs : fn[f].parser = 0 /\ fn[f].subparser = 0
    /\ cls_parser = 0
    /\ cls_main = 0

(* C3 as stated: every type with no root-annotated method fails to build with
   "No main command found.", before any parser is constructed and before the
   entry-point parser or the default command is recorded. *)
C3_NoRootFails_Orig ==
    (phase # "class_body" /\ Roots = {}) => NoMainFailure

(* C3 amended: every type with at least one annotated method and no
   root-annotated method fails so; a type with no annotated method at all is
   created without a parser. *)
C3_NoRootFails ==
    /\ (phase # "class_body" /\ Roots = {} /\ Annotated # {}) => NoMainFailure
    /\ (phase # "class_body" /\ Annotated = {}) =>
           (phase = "ready" /\ cls_parser = 0 /\ parsers = <<>>)

C3_Witness ==
    /\ phase = "failed"
    /\ Roots = {}
    /\ Cardinality(Annotated) >= 2
    /\ Implicit # {}

(* ---- C4 ---- *)
(* C4: a type with two or more root-annotated methods fails to build with
   the ambiguous-main-command error, whose payload lists all the root
   methods; no parser is created and no entry-point parser or default
   command is recorded. *)
C4_AmbiguousRootFails ==
    (phase # "class_body" /\ Cardinality(Roots) >= 2) =>
        /\ phase = "failed"
        /\ error.msg = "Too much main command found"
        /\ Kids(error.payload, NoneKey) = Roots
        /\ Len(error.payload[NoneKey]) = Cardinality(Roots)
        /\ parsers = <<>>
        /\ \A f \in Funcs : fn[f].parser = 0 /\ fn[f].subparser = 0
        /\ cls_parser = 0
        /\ cls_main = 0

C4_Witness ==
    /\ phase = "failed"
    /\ Cardinality(Roots) >= 2
    /\ Annotated # Roots

(* ---- C5 ---- *)
(* C5 as stated: after a successful build, run on input that names no
   subcommand runs the root's action, and run on input that names a
   registered chain root -> ... -> C runs the action of C, for any C, leaf
   or not, with (instance, parse result). *)
C5_Dispatch_Orig ==
    (Built /\ last.op = "run" /\ IsChain(last.argv)) =>
        /\ last.action = ChainEnd(last.argv)
        /\ last.callargs = <<"self", "args">>

(* C5 amended: after a successful build, run calls at most one action
   method, with (instance, parse result): input that names a registered
   chain root -> ... -> C whose last command C has no subcommands (the empty
   input when the root has none) runs the action of C; a parse result that
   carries no bound action runs the root's action, and one that carries a
   bound action runs that action. *)
C5_Dispatch ==
    /\ (Built /\ last.op = "run" /\ IsChain(last.argv)
          /\ ~has_children(commands, ChainEnd(last.argv))) =>
           /\ last.action = ChainEnd(last.argv)
           /\ last.callargs = <<"self", "args">>
           /\ last.exc = ""
    /\ (Built /\ last.op = "run_args") =>
           /\ last.action = (IF last.run = 0 THEN cls_main ELSE last.run)
           /\ last.callargs = <<"self", "args">>

C5_Witness ==
    /\ Built
    /\ last.op = "run"
    /\ Len(last.argv) = 2
    /\ last.action = last.argv[2]
    /\ last.action # cls_main

(* ---- C6 ---- *)
(* C6: the param annotations applied to a method accumulate in its
   parameter list in the order of application, none is lost, and the build
   issues the add_argument calls on the method's parser in that order. *)
C6_ParamsInOrder ==
    /\ \A f \in Funcs :
          /\ fn[f].hasParams = (fn[f].params # <<>>)
          /\ \A i, j \in 1..Len(fn[f].params) :
                i < j => fn[f].params[i] < fn[f].params[j]
    /\ UNION {{fn[f].params[i] : i \in 1..Len(fn[f].params)} : f \in Funcs}
          = 1..nparams
    /\ \A p \in 1..Len(parsers) :
          IsPrefix(parsers[p].args, ParamsOf(parsers[p].cmd))
    /\ phase = "ready" =>
          \A p \in 1..Len(parsers) :
              parsers[p].args = ParamsOf(parsers[p].cmd)

C6_Witness ==
    /\ phase = "ready"
    /\ \E p \in 1..Len(parsers) :
          /\ Len(parsers[p].args) >= 2
          /\ parsers[p].under # 0

(* ---- C7 ---- *)
(* C7: once the type is built, parse and run leave the entry-point parser,
   the default command, and every command's parser, sub-parser group,
   parameter list and default-action binding as the build left them. *)
C7_RunOnlyReads ==
    [][phase = "ready" =>
          /\ fn' = fn
          /\ parsers' = parsers
          /\ commands' = commands
          /\ cls_parser' = cls_parser
          /\ cls_main' = cls_main
          /\ phase' = "ready"]_vars

C7_Witness ==
    /\ Built
    /\ last.op = "run"
    /\ last.action # 0
    /\ last.action # cls_main

(* ---- C8 ---- *)
(* C8: after a successful build every command with a child in the resolved
   mapping has a sub-parser group and no bound default action, and every
   command without children has no sub-parser group and a bound default
   action equal to its own method. *)
C8_LeafOrGroup ==
    Built =>
        \A f \in Annotated :
            IF has_children(commands, f)
            THEN /\ fn[f].subparser # 0
                 /\ \A p \in ParsersOf(f) : parsers[p].group /\ parsers[p].run = 0
            ELSE /\ fn[f].subparser = 0
                 /\ fn[f].parser # 0
                 /\ ~parsers[fn[f].parser].group
                 /\ parsers[fn[f].parser].run = f

(* ---- C9 ---- *)
(* C9: when the parser of a non-root command is created, its parent's
   parser and sub-parser group exist and all of the parent's parameters are
   already attached to the parent's parser. *)
C9_ParentFirst ==
    [][\A f \in Funcs :
          (Len(parsers') > Len(parsers) /\ parsers'[Len(parsers')].cmd = f
             /\ top.parent_func # NoneKey) =>
              LET pf == top.parent_func.f
              IN /\ fn[pf].parser # 0
                 /\ fn[pf].subparser = fn[pf].parser
                 /\ parsers[fn[pf].parser].group
                 /\ parsers[fn[pf].parser].args = ParamsOf(pf)
                 /\ parsers'[Len(parsers')].under = fn[pf].parser]_vars

C9_Witness ==
    \E p \in 1..Len(parsers) :
        /\ parsers[p].under # 0
        /\ Len(parsers[parsers[p].under].args) >= 1
        /\ parsers[parsers[p].under].under # 0

(* ---- C10 ---- *)
VisitsBounded ==
    /\ \A f \in Funcs :
          /\ Cardinality(ParsersOf(f)) <= 1
          /\ ParsersOf(f) # {} => f \in Reachable
    /\ Len(stack) <= NumFuncs + 1
    /\ \A i, j \in 1..Len(stack) :
          i # j => stack[i].parent_func # stack[j].parent_func

(* C10: for every set of annotated methods that passes root validation,
   cycles among the explicit parents and parents outside the type included,
   build_commands visits only commands reachable from the root, each at most
   once, and the build comes to an end. *)
C10_BuildTerminates ==
    /\ []VisitsBounded
    /\ (phase = "build") ~> (phase \in {"ready", "failed"})

C10_Witness ==
    /\ phase = "ready"
    /\ cls_parser # 0
    /\ \E f, g \in Annotated :
          /\ f # g
          /\ fn[f].parent = FuncKey(g)
          /\ fn[g].parent = FuncKey(f)

====
